---------------------------- MODULE Spec2Model ----------------------------
(***************************************************************************)
(* SKI cache of the SRx server (ski_cache.c, version 0.1.0.0).             *)
(*                                                                         *)
(* The cache is the tree  cache -> upper node list -> as2 slot ->          *)
(* algorithm id list -> cache data list -> update id list.  The model      *)
(* keeps every list as [elems, end]: elems is the sequence of linked       *)
(* elements, end is the value of the last element's next pointer.          *)
(* Every structure is allocated with malloc and then "cleared" with        *)
(* memset(p, sizeof(..), 0), which clears zero bytes, so a field that is   *)
(* not assigned afterwards holds whatever the allocator returned: "null"   *)
(* (zero memory) or "wild" (anything else).  Following a wild pointer is   *)
(* modelled as a fault of the process.                                     *)
(***************************************************************************)
EXTENDS Integers, Sequences, FiniteSets, TLC

(***************************************************************************)
(* Bounds of the model.                                                    *)
(***************************************************************************)
\* largest number of outstanding registerKey calls per triple that is tracked
MaxRegs == 2

(***************************************************************************)
(* Program constants.                                                      *)
(***************************************************************************)
SKI_LENGTH == 20
SizeofPathAttribute == 2
SizeofSignatureBlock == 3
SizeofPathSegment == 6
BGP_UPD_A_FLAGS_EXT_LENGTH == 16
BGPSEC_PATH_TYPE == 33
\* offsets of the fields inside the wire structures
OffBlockAlgoID == 0
OffBlockLength == 1
OffSegmentAsn == 2
OffSigSegSiglen == 20
U16Mod == 65536

REGVAL_ERROR == "REGVAL_ERROR"
REGVAL_INVALID == "REGVAL_INVALID"
REGVAL_UNKNOWN == "REGVAL_UNKNOWN"
SKI_NEW == "SKI_NEW"
SKI_ADD == "SKI_ADD"
SKI_DEL == "SKI_DEL"
SKI_REMOVED == "SKI_REMOVED"

\* what a pointer field that was never assigned can hold
Uninit == {"null", "wild"}
\* what a u_int8_t counter that was never assigned can hold
UninitCounter == {0, 255}
\* what a byte read behind the end of the attribute buffer can hold
UninitByte == {0, 255}

(***************************************************************************)
(* Byte streams.                                                           *)
(***************************************************************************)
\* u_int16_t arithmetic: the value of (u_int16_t)(x)
U16(x) == x % U16Mod

\* C integer division (truncation towards zero) by a positive divisor
CDiv(a, b) == IF a >= 0 THEN a \div b ELSE -((-a) \div b)

\* the byte at offset o (0-based) of the stream; pad behind the buffer
ByteAt(buf, o, pad) == IF o < Len(buf) THEN buf[o + 1] ELSE pad

\* ntohs(*(u_int16_t*)(stream + o))
Ntohs(buf, o, pad) == ByteAt(buf, o, pad) * 256 + ByteAt(buf, o + 1, pad)

\* *(u_int16_t*)(stream + o) in host byte order
Raw16(buf, o, pad, le) ==
  IF le THEN ByteAt(buf, o, pad) + 256 * ByteAt(buf, o + 1, pad)
        ELSE Ntohs(buf, o, pad)

\* Ntohl reading a two-byte AS number from the low half of the field
Ntohl_mut(buf, o, pad) ==
  ByteAt(buf, o + 2, pad) * 256 + ByteAt(buf, o + 3, pad)

\* ntohl(*(u_int32_t*)(stream + o))
Ntohl(buf, o, pad) ==
  ((ByteAt(buf, o, pad) * 256 + ByteAt(buf, o + 1, pad)) * 256
     + ByteAt(buf, o + 2, pad)) * 256 + ByteAt(buf, o + 3, pad)

\* the SKI_LENGTH bytes at offset o
SkiAt(buf, o, pad) == [i \in 1..SKI_LENGTH |-> ByteAt(buf, o + i - 1, pad)]

\* memcmp(a, b, SKI_LENGTH): the sign of the first differing byte
MemCmp(a, b) ==
  LET diff == {i \in 1..SKI_LENGTH : a[i] # b[i]}
  IN  IF diff = {} THEN 0
      ELSE LET f == CHOOSE i \in diff : \A j \in diff : i <= j
           IN  IF a[f] < b[f] THEN -1 ELSE 1

(***************************************************************************)
(* The cache tree.                                                         *)
(***************************************************************************)
\* a linked list: its elements and the next pointer of the last one (the
\* head pointer itself while the list has no element)
List(es, e) == [elems |-> es, end |-> e]

\* InsertBefore linking e behind the i-th element instead
InsertBefore_mut(l, i, e) ==
  List(SubSeq(l.elems, 1, i) \o <<e>> \o SubSeq(l.elems, i + 1, Len(l.elems)),
       l.end)

\* link element e in front of the i-th element of the list l
InsertBefore(l, i, e) ==
  List(SubSeq(l.elems, 1, i - 1) \o <<e>> \o SubSeq(l.elems, i, Len(l.elems)),
       l.end)

\* what one call of _getCacheData finds in the memory it never assigns:
\* next is read for the next pointer of the first element of a list (of
\* nodes, algorithm ids, cache data), head for a head pointer (an as2 slot,
\* cacheData of an algorithm id, cacheUID of a cache data element), prev for
\* the local prev of __ski_getCacheAlgoID, counter for the counter of a
\* cache data element
Garbage == [next : Uninit, head : Uninit, prev : Uninit, counter : UninitCounter]

\* a new _SKI_CACHE_NODE: no as2 slot has been assigned yet
ski_createCacheNode(upper) == [upper |-> upper, as2 |-> <<>>]

\* a new _SKI_CACHE_ALGO_ID: cacheData keeps the allocator's value
ski_createCacheAlgoID(algoID, g) ==
  [algoID |-> algoID, cacheData |-> List(<<>>, g.head)]

\* ___ski_createCacheUID: the result of malloc is dropped and cUID stays
\* NULL, so for a non-NULL updateID the store cUID->shared goes through a
\* null pointer.  A trapping build faults there; a build that treats the
\* store as unreachable returns NULL.  "fault" or "null".
ski_createCacheUID(updateID, build) ==
  IF updateID = 0 THEN "null"
  ELSE IF build = "trap" THEN "fault" ELSE "null"

\* ski_createCacheData storing only the low two bytes of the AS number
ski_createCacheData_mut(asn, ski, algoID, g) ==
  [asn |-> asn % 65536, ski |-> ski, algoID |-> algoID, counter |-> g.counter,
   cacheUID |-> List(<<>>, g.head)]

\* a new _SKI_CACHE_DATA created with updateID = NULL: counter and cacheUID
\* keep the allocator's values
ski_createCacheData(asn, ski, algoID, g) ==
  [asn |-> asn, ski |-> ski, algoID |-> algoID, counter |-> g.counter,
   cacheUID |-> List(<<>>, g.head)]

\* the first position of the walk at which it stops: the first element
\* whose key is not smaller than k; 0 when the walk runs off the list
StopAt(keys, k) ==
  LET stops == {i \in 1..Len(keys) : ~(keys[i] < k)}
  IN  IF stops = {} THEN 0
      ELSE CHOOSE i \in stops : \A j \in stops : i <= j

\* the same for the walk over SKIs, which compares with memcmp
SkiLess(a, b) == MemCmp(a, b) < 0
StopAtSki(keys, k) ==
  LET stops == {i \in 1..Len(keys) : ~SkiLess(keys[i], k)}
  IN  IF stops = {} THEN 0
      ELSE CHOOSE i \in stops : \A j \in stops : i <= j

\* the result of a lookup: st is "ok" (ix is the position of the element),
\* "null" (NULL is returned) or "fault"
Res(st, l, ix) == [st |-> st, list |-> l, ix |-> ix]

\* __ski_getCacheNode on the upper list of the cache
ski_getCacheNode(l, upper, create, g) ==
  IF l.elems = <<>>
  THEN IF l.end = "wild" THEN Res("fault", l, 0)
       ELSE IF create
            THEN Res("ok", List(<<ski_createCacheNode(upper)>>, g.next), 1)
            ELSE Res("null", l, 0)
  ELSE LET keys == [i \in 1..Len(l.elems) |-> l.elems[i].upper]
           i == StopAt(keys, upper)
       IN  IF i = 0
           THEN Res(IF l.end = "wild" THEN "fault" ELSE "null", l, 0)
           ELSE IF upper = keys[i] THEN Res("ok", l, i)
           ELSE IF create
                THEN Res("ok", InsertBefore(l, i, ski_createCacheNode(upper)), i)
                ELSE Res("null", l, 0)

\* the insertion of __ski_getCacheAlgoID in front of the head of the slot
\* list: prev was never assigned; with prev = NULL the new element takes the
\* next pointer of the old head and replaces it
AlgoHeadInsert(l, e) == List(<<e>> \o Tail(l.elems), l.end)

\* __ski_getCacheAlgoID on the list of one as2 slot
ski_getCacheAlgoID(l, algoID, create, g) ==
  IF l.elems = <<>>
  THEN IF l.end = "wild" THEN Res("fault", l, 0)
       ELSE IF create
            THEN Res("ok", List(<<ski_createCacheAlgoID(algoID, g)>>,
                                g.next), 1)
            ELSE Res("null", l, 0)
  ELSE LET keys == [i \in 1..Len(l.elems) |-> l.elems[i].algoID]
           i == StopAt(keys, algoID)
       IN  IF i = 0
           THEN Res(IF l.end = "wild" THEN "fault" ELSE "null", l, 0)
           ELSE IF algoID = keys[i] THEN Res("ok", l, i)
           ELSE IF ~create THEN Res("null", l, 0)
           ELSE IF i > 1
                THEN Res("ok", InsertBefore(l, i,
                                  ski_createCacheAlgoID(algoID, g)), i)
                ELSE IF g.prev = "wild" THEN Res("fault", l, 0)
                     ELSE Res("ok", AlgoHeadInsert(l,
                                  ski_createCacheAlgoID(algoID, g)), 1)

\* ski_getCacheDataList without the test for an equal SKI: an element found
\* equal is treated like a greater one
ski_getCacheDataList_mut(l, asn, ski, algoID, create, g) ==
  IF l.elems = <<>>
  THEN IF l.end = "wild" THEN Res("fault", l, 0)
       ELSE IF create
            THEN Res("ok", List(<<ski_createCacheData(asn, ski, algoID, g)>>,
                                g.next), 1)
            ELSE Res("null", l, 0)
  ELSE LET keys == [i \in 1..Len(l.elems) |-> l.elems[i].ski]
           i == StopAtSki(keys, ski)
       IN  IF i = 0
           THEN Res(IF l.end = "wild" THEN "fault" ELSE "null", l, 0)
           ELSE IF create
                THEN Res("ok", InsertBefore(l, i,
                                  ski_createCacheData(asn, ski, algoID, g)), i)
                ELSE Res("null", l, 0)

\* the walk of _getCacheData over the data list of one algorithm id
ski_getCacheDataList(l, asn, ski, algoID, create, g) ==
  IF l.elems = <<>>
  THEN IF l.end = "wild" THEN Res("fault", l, 0)
       ELSE IF create
            THEN Res("ok", List(<<ski_createCacheData(asn, ski, algoID, g)>>,
                                g.next), 1)
            ELSE Res("null", l, 0)
  ELSE LET keys == [i \in 1..Len(l.elems) |-> l.elems[i].ski]
           i == StopAtSki(keys, ski)
       IN  IF i = 0
           THEN Res(IF l.end = "wild" THEN "fault" ELSE "null", l, 0)
           ELSE IF MemCmp(ski, keys[i]) = 0 THEN Res("ok", l, i)
           ELSE IF create
                THEN Res("ok", InsertBefore(l, i,
                                  ski_createCacheData(asn, ski, algoID, g)), i)
                ELSE Res("null", l, 0)

\* the value of as2[slot] of a node: an assigned slot holds its list, a slot
\* that was never assigned holds the allocator's value
SlotOf(node, slot, g) ==
  IF slot \in DOMAIN node.as2 THEN node.as2[slot] ELSE List(<<>>, g.head)

\* _getCacheData: st, the cache afterwards and the place <<node, slot,
\* algorithm id, data>> of the cache data element.  Each of the three
\* lookups is made once and its result kept (rn, ra, rd).
getCacheData(c, asn, ski, algoID, create, g) ==
  LET upper == asn \div 65536
      as2 == asn % 65536
      Data(rn, ra, rd) ==
        LET node == rn.list.elems[rn.ix]
            algo1 == [ra.list.elems[ra.ix] EXCEPT !.cacheData = rd.list]
            slot1 == [ra.list EXCEPT !.elems[ra.ix] = algo1]
            node1 == [node EXCEPT !.as2 = (as2 :> slot1) @@ node.as2]
            nodeA == [node EXCEPT !.as2 = (as2 :> ra.list) @@ node.as2]
        IN  [st |-> rd.st,
             cache |-> [c EXCEPT !.cacheNode =
                          [rn.list EXCEPT !.elems[rn.ix] =
                             IF rd.st = "ok" THEN node1 ELSE nodeA]],
             at |-> IF rd.st = "ok" THEN <<rn.ix, as2, ra.ix, rd.ix>>
                    ELSE <<>>]
      Algo(rn, ra) ==
        IF ra.st # "ok"
        THEN [st |-> ra.st, cache |-> [c EXCEPT !.cacheNode = rn.list],
              at |-> <<>>]
        ELSE CHOOSE res \in
               {Data(rn, ra, rd) :
                  rd \in {ski_getCacheDataList(ra.list.elems[ra.ix].cacheData,
                                               asn, ski, algoID, create, g)}}
               : TRUE
      Node(rn) ==
        IF rn.st # "ok"
        THEN [st |-> rn.st, cache |-> c, at |-> <<>>]
        ELSE CHOOSE res \in
               {Algo(rn, ra) :
                  ra \in {ski_getCacheAlgoID(SlotOf(rn.list.elems[rn.ix],
                                                    as2, g),
                                             algoID, create, g)}}
               : TRUE
  IN  CHOOSE res \in
        {Node(rn) : rn \in {ski_getCacheNode(c.cacheNode, upper, create, g)}}
        : TRUE

\* the cache data element at a place
DataAt(c, at) ==
  c.cacheNode.elems[at[1]].as2[at[2]].elems[at[3]].cacheData.elems[at[4]]

\* __ski_addUpdateCacheUID on the update id list of one cache data element:
\* st is "ok" or "fault"
ski_addUpdateCacheUID(l, updateID, build) ==
  IF l.elems = <<>>
  THEN IF l.end = "wild" THEN [st |-> "fault", list |-> l]
       ELSE IF ski_createCacheUID(updateID, build) = "fault"
            THEN [st |-> "fault", list |-> l]
            ELSE [st |-> "ok", list |-> l]
  ELSE LET i == StopAt(l.elems, updateID)
       IN  IF i # 0 /\ l.elems[i] = updateID
           THEN [st |-> "ok", list |-> l]
           ELSE [st |-> "fault", list |-> l]

(***************************************************************************)
(* The attributes handed to ski_registerUpdate.  An attribute is described *)
(* by its path ASNs and its signature blocks and is laid out on the wire:  *)
(* flags, type, length (1 byte, 2 bytes with the extended-length flag),    *)
(* Secure_Path (2-byte length, 6 bytes per segment), signature blocks      *)
(* (algorithm id, 2-byte length, per segment SKI, 2-byte signature length, *)
(* signature).                                                             *)
(***************************************************************************)
Zeros(n) == [i \in 1..n |-> 0]
Be16(v) == <<v \div 256, v % 256>>
Be32(v) == <<v \div 16777216, (v \div 65536) % 256, (v \div 256) % 256, v % 256>>

RECURSIVE Flatten(_)
Flatten(ss) == IF ss = <<>> THEN <<>> ELSE Head(ss) \o Flatten(Tail(ss))

WirePathSegment(asn) == <<0, 1>> \o Be32(asn)
WireSigSegment(seg) == seg.ski \o Be16(seg.siglen) \o Zeros(seg.siglen)
WireBlock(b) ==
  LET body == Flatten([i \in 1..Len(b.segs) |-> WireSigSegment(b.segs[i])])
               \o Zeros(b.fill)
  IN  <<b.algoID>> \o Be16(SizeofSignatureBlock + Len(body)) \o body
WireSecurePath(asns) ==
  Be16(2 + SizeofPathSegment * Len(asns))
    \o Flatten([i \in 1..Len(asns) |-> WirePathSegment(asns[i])])
WireValue(asns, blocks) ==
  WireSecurePath(asns) \o Flatten([i \in 1..Len(blocks) |-> WireBlock(blocks[i])])

\* the attribute with the given declared length in front of the value
WireAttr(ext, declared, value) ==
  IF ext THEN <<BGP_UPD_A_FLAGS_EXT_LENGTH, BGPSEC_PATH_TYPE>>
                \o Be16(declared) \o value
         ELSE <<0, BGPSEC_PATH_TYPE>> \o <<declared>> \o value

SkiA == <<171, 77, 145, 15, 85, 202, 231, 26, 33, 94,
          243, 202, 254, 58, 204, 69, 181, 238, 193, 84>>
SkiB == <<71, 242, 59, 241, 171, 47, 138, 157, 38, 134,
          78, 187, 216, 223, 39, 17, 199, 68, 6, 236>>

\* the key triples <<asn, algoID, ski>> of the test data
KeyA == <<65534, 1, SkiA>>
KeyB == <<65534, 2, SkiB>>
Keys == {KeyA, KeyB}

Seg(ski, siglen) == [ski |-> ski, siglen |-> siglen]
\* a signature block; fill is the number of bytes behind its last segment
Blk(algoID, segs, fill) == [algoID |-> algoID, segs |-> segs, fill |-> fill]

\* the key triples of every block of a description
TriplesOf(asns, blocks) ==
  [b \in 1..Len(blocks) |->
     [i \in 1..Len(asns) |-> <<asns[i], blocks[b].algoID, blocks[b].segs[i].ski>>]]

\* an attribute whose declared length is the length of its value
WellFormed(ext, asns, blocks) ==
  LET v == WireValue(asns, blocks)
  IN  [null |-> FALSE, buf |-> WireAttr(ext, Len(v), v), wf |-> TRUE,
       trunc |-> FALSE, blocks |-> TriplesOf(asns, blocks)]

\* an attribute whose declared length is extra bytes longer than its
\* value, followed by that many zero bytes
Overlong(ext, extra, asns, blocks) ==
  LET v == WireValue(asns, blocks)
  IN  [null |-> FALSE, buf |-> WireAttr(ext, Len(v) + extra, v \o Zeros(extra)),
       wf |-> FALSE, trunc |-> FALSE, blocks |-> TriplesOf(asns, blocks)]

\* an attribute that declares only the first keep bytes of its value; the
\* bytes named by follow come behind it in the buffer
Truncated(keep, asns, follow) ==
  LET v == WireValue(asns, <<>>)
  IN  [null |-> FALSE, buf |-> WireAttr(FALSE, keep, SubSeq(v, 1, keep)) \o follow,
       wf |-> FALSE, trunc |-> TRUE, blocks |-> <<>>]

NullAttr == [null |-> TRUE, buf |-> <<>>, wf |-> FALSE, trunc |-> FALSE,
             blocks |-> <<>>]

Attrs ==
  [null   |-> NullAttr,
   path   |-> WellFormed(FALSE, <<65534>>, <<>>),
   one    |-> WellFormed(FALSE, <<65534>>, <<Blk(1, <<Seg(SkiA, 4)>>, 0)>>),
   two    |-> WellFormed(FALSE, <<65534>>,
                <<Blk(1, <<Seg(SkiA, 4)>>, 0), Blk(2, <<Seg(SkiB, 4)>>, 0)>>),
   cut    |-> Truncated(4, <<65534, 65535>>, <<>>),
   cutf   |-> Truncated(4, <<65534, 65535>>,
                SubSeq(WireValue(<<65534, 65535>>, <<>>), 5, 14)
                  \o <<1, 255, 245>> \o SkiA \o <<0, 0>>),
   more   |-> Overlong(FALSE, 1, <<65534>>, <<>>),
   big0   |-> Overlong(TRUE, 2, <<>>, <<Blk(1, <<>>, 253)>>),
   big1   |-> Overlong(TRUE, 2, <<65534>>, <<Blk(1, <<Seg(SkiA, 231)>>, 0)>>),
   down   |-> Overlong(TRUE, 2, <<65536, 65534>>,
                <<Blk(1, <<Seg(SkiA, 0), Seg(SkiB, 209)>>, 0)>>),
   up     |-> Overlong(TRUE, 2, <<65534, 65536>>,
                <<Blk(1, <<Seg(SkiA, 0), Seg(SkiB, 209)>>, 0)>>),
   far    |-> Overlong(TRUE, 2, <<65534, 65534>>,
                <<Blk(1, <<Seg(SkiB, 100), Seg(SkiA, 109)>>, 0)>>)]
AttrNames == DOMAIN Attrs

\* the update ids; 0 is the NULL pointer
UpdateIDs == {0, 1}

(***************************************************************************)
(* The walk of ski_registerUpdate over the attribute, up to the verdict    *)
(* REGVAL_INVALID that precedes the registration loop.                     *)
(***************************************************************************)
Max(a, b) == IF a > b THEN a ELSE b

\* ret is REGVAL_ERROR when the walk returns early and REGVAL_INVALID when
\* it reaches the loop; sigBlock is the offset of sigBlocks[0], -1 for NULL;
\* reach is the number of bytes of the stream the walk has read; budget is
\* the remainder in front of the Secure_Path (line 841)
ski_walk(buf, le, pad) ==
  LET ext == (ByteAt(buf, 0, pad) \div BGP_UPD_A_FLAGS_EXT_LENGTH) % 2 = 1
      s0 == SizeofPathAttribute
      rem0 == IF ext THEN U16(Ntohs(buf, s0, pad) - 2)
                     ELSE U16(ByteAt(buf, s0, pad) - 1)
      s1 == IF ext THEN s0 + 2 ELSE s0 + 1
      numSegments == CDiv(Ntohs(buf, s1, pad) - 2, SizeofPathSegment)
      rem1 == U16(rem0 - 2)
      s2 == s1 + 2
      rem2 == U16(rem1 - numSegments * SizeofPathSegment)
      s3 == s2 + numSegments * SizeofPathSegment
      second == rem2 > Raw16(buf, s3 + OffBlockLength, pad, le)
      length == Ntohs(buf, s3 + OffBlockLength, pad)
      rem3 == IF rem2 > 0 /\ second THEN U16(rem2 - length) ELSE rem2
      r3 == IF rem2 > 0 THEN s3 + OffBlockLength + 2 ELSE s2
      err(reach) == [ret |-> REGVAL_ERROR, numSegments |-> 0,
                     asn_list |-> <<>>, sigBlock |-> -1, reach |-> reach,
                     budget |-> rem0]
  IN  IF rem0 = 0 THEN err(s1)
      ELSE IF rem1 = 0 THEN err(s2)
      ELSE IF rem3 # 0 THEN err(r3)
      ELSE [ret |-> REGVAL_INVALID,
            numSegments |-> numSegments,
            asn_list |-> [i \in 1..numSegments |->
                            Ntohl(buf, s2 + SizeofPathSegment * (i - 1)
                                         + OffSegmentAsn, pad)],
            sigBlock |-> IF rem2 > 0 THEN s3 ELSE -1,
            reach |-> Max(r3, s3),
            budget |-> rem0]

\* the walk over every attribute, per byte order and per padding byte
Walks ==
  [a \in AttrNames |->
     [le \in BOOLEAN |->
        [pad \in UninitByte |->
           IF Attrs[a].null THEN <<>> ELSE ski_walk(Attrs[a].buf, le, pad)]]]

(***************************************************************************)
(* The state of the process.                                               *)
(***************************************************************************)
VARIABLES
  cache,     \* the _SKI_CACHE: the tree below cacheNode
  pc,        \* "idle", inside ski_registerUpdate ("while", "for"), "fault"
  cur,       \* the locals of the running ski_registerUpdate call
  op,        \* the call made last
  ret,       \* the verdict the last call returned, "none" without one
  notified,  \* the keyChange invocations of the last call, in order
  regs,      \* per key triple: registerKey calls not yet unregistered
  pend,      \* <<update id, triple>> handed over in well-formed attributes
  hostLE,    \* the host is little-endian
  build,     \* what the build makes of the null store in createCacheUID
  callback   \* the callback handed to ski_createCache: "null" or "cb"

vars == <<cache, pc, cur, op, ret, notified, regs, pend, hostLE, build,
          callback>>

\* the initial verdict, were it REGVAL_INVALID
retValInit_mut == REGVAL_INVALID

\* e_Upd_RegRes retVal = REGVAL_ERROR;  the verdict before the attribute is read
retValInit == REGVAL_ERROR

\* examined: the for loop has passed over every segment of the block
\* (history); pass: the parity of the evaluations of the while head (history);
\* at: the place of cData between its lookup and its use; cleaned: ski_clean
\* has run in another thread since that lookup (history)
NoCall == [uid |-> 0, attr |-> "null", pad |-> 0, numSegments |-> 0,
           asn_list |-> <<>>, sigBlock |-> -1, algoID |-> 0, idx |-> 0,
           stream |-> 0, keyCount |-> 0, retVal |-> retValInit,
           skis |-> <<>>, examined |-> FALSE, pass |-> 0, at |-> <<>>,
           cleaned |-> FALSE]

\* the NULL cache pointer
NullCache == [null |-> TRUE]

\* the callbacks a caller can hand to ski_createCache
Callbacks == {"null", "cb"}

\* ski_createCache without the test of its argument
ski_createCache_mut(cb, k, e, n) ==
  [null |-> FALSE, keyChange |-> k, cacheNode |-> List(<<>>, e),
   dataNodes |-> n]

\* ski_createCache: NULL without a callback; with one, a _SKI_CACHE whose
\* fields keyChange, cacheNode and dataNodes are never assigned and keep
\* what the allocator returned (k, e, n)
ski_createCache(cb, k, e, n) ==
  IF cb = "null" THEN NullCache
  ELSE [null |-> FALSE, keyChange |-> k, cacheNode |-> List(<<>>, e),
        dataNodes |-> n]

\* the state after ski_createCache(callback)
Init ==
  /\ callback \in Callbacks
  /\ \E k \in Uninit, e \in Uninit, n \in UninitCounter :
       cache = ski_createCache(callback, k, e, n)
  /\ pc = "idle"
  /\ cur = NoCall
  /\ op = [name |-> "createCache"]
  /\ ret = "none"
  /\ notified = <<>>
  /\ regs = [k \in Keys |-> 0]
  /\ pend = {}
  /\ hostLE \in BOOLEAN
  /\ build \in {"trap", "elide"}

\* a call on the cache: a caller that was given no cache makes none
Called(o) ==
  /\ ~cache.null
  /\ op' = o
  /\ notified' = <<>>
  /\ UNCHANGED <<hostLE, build, callback>>

\* all triples of the blocks of an attribute
AttrTriples(a) ==
  UNION {{a.blocks[b][i] : i \in DOMAIN a.blocks[b]} : b \in DOMAIN a.blocks}

(***************************************************************************)
(* ski_registerUpdate.  The call is one step up to its return or up to the *)
(* registration loop; the loop  while (sigBlock != NULL)  is a step per    *)
(* evaluation of its head and a step per pass of the inner for loop.       *)
(***************************************************************************)
ski_registerUpdate(updateID, name) ==
  /\ pc = "idle"
  /\ Called([name |-> "registerUpdate", uid |-> updateID, attr |-> name])
  /\ pend' = IF Attrs[name].wf /\ updateID # 0
             THEN pend \cup {<<updateID, t>> : t \in AttrTriples(Attrs[name])}
             ELSE pend
  /\ UNCHANGED <<cache, regs>>
  /\ IF Attrs[name].null
     THEN /\ ret' = retValInit
          /\ UNCHANGED <<pc, cur>>
     ELSE \E pad \in UninitByte, oobFault \in BOOLEAN :
            LET buf == Attrs[name].buf
                w == Walks[name][hostLE][pad]
            IN  IF w.reach > Len(buf) /\ oobFault
                THEN /\ pc' = "fault"
                     /\ ret' = "none"
                     /\ UNCHANGED cur
                ELSE IF w.ret = REGVAL_ERROR \/ w.sigBlock = -1
                THEN /\ ret' = w.ret
                     /\ UNCHANGED <<pc, cur>>
                ELSE /\ pc' = "while"
                     /\ ret' = "none"
                     /\ cur' = [NoCall EXCEPT
                                  !.uid = updateID, !.attr = name, !.pad = pad,
                                  !.numSegments = w.numSegments,
                                  !.asn_list = w.asn_list,
                                  !.sigBlock = w.sigBlock,
                                  !.retVal = w.ret]

\* the head of the while loop and the statements in front of the for loop
ski_registerUpdate_block ==
  /\ pc = "while"
  /\ cur.sigBlock # -1
  /\ cur' = [cur EXCEPT
               !.keyCount = 0,
               !.algoID = ByteAt(Attrs[cur.attr].buf,
                                 cur.sigBlock + OffBlockAlgoID, cur.pad),
               !.stream = cur.sigBlock + SizeofSignatureBlock,
               !.idx = 0,
               !.skis = <<>>,
               !.examined = (cur.numSegments = 0),
               !.pass = 1 - @]
  /\ pc' = IF cur.numSegments > 0 THEN "for" ELSE "while"
  /\ UNCHANGED <<cache, op, ret, notified, regs, pend, hostLE, build,
                 callback>>

\* one pass of the for loop: segment idx of the block
ski_registerUpdate_segment ==
  /\ pc = "for"
  /\ cur.idx < cur.numSegments
  /\ UNCHANGED <<op, ret, notified, regs, pend, hostLE, build, callback>>
  /\ \E g \in Garbage, oobFault \in BOOLEAN :
     \E ski \in {SkiAt(Attrs[cur.attr].buf, cur.stream, cur.pad)} :
     \E r \in {getCacheData(cache, cur.asn_list[cur.idx + 1], ski,
                            cur.algoID, TRUE, g)} :
       LET buf == Attrs[cur.attr].buf
           siglen == Raw16(buf, cur.stream + OffSigSegSiglen, cur.pad, hostLE)
       IN  IF cur.stream + OffSigSegSiglen + 2 > Len(buf) /\ oobFault
           THEN /\ pc' = "fault"
                /\ UNCHANGED <<cache, cur>>
           ELSE IF r.st # "ok"
           THEN /\ pc' = "fault"
                /\ cache' = r.cache
                /\ UNCHANGED cur
           ELSE
           LET d == DataAt(r.cache, r.at)
               u == ski_addUpdateCacheUID(d.cacheUID, cur.uid, build)
           IN  IF u.st # "ok"
               THEN /\ pc' = "fault"
                    /\ cache' = r.cache
                    /\ cur' = [cur EXCEPT
                                 !.keyCount = IF d.counter > 0 THEN @ + 1 ELSE @]
               ELSE /\ cache' = [r.cache EXCEPT
                        !.cacheNode.elems[r.at[1]].as2[r.at[2]].elems[r.at[3]]
                          .cacheData.elems[r.at[4]].cacheUID = u.list]
                    /\ cur' = [cur EXCEPT
                                 !.keyCount = IF d.counter > 0 THEN @ + 1 ELSE @,
                                 !.stream = @ + siglen,
                                 !.idx = @ + 1,
                                 !.skis = Append(@, ski),
                                 !.examined = (cur.idx + 1 = cur.numSegments)]
                    /\ pc' = IF cur.idx + 1 < cur.numSegments
                             THEN "for" ELSE "while"

(***************************************************************************)
(* The operations with an empty body.                                      *)
(***************************************************************************)
ski_registerKey(k) ==
  /\ pc = "idle"
  /\ regs[k] < MaxRegs
  /\ Called([name |-> "registerKey", key |-> k])
  /\ regs' = [regs EXCEPT ![k] = @ + 1]
  /\ ret' = "none"
  /\ UNCHANGED <<cache, pc, cur, pend>>

\* ski_unregisterKey looking its record up with create set
ski_unregisterKey_mut(k) ==
  /\ pc = "idle"
  /\ Called([name |-> "unregisterKey", key |-> k])
  /\ regs' = [regs EXCEPT ![k] = IF @ > 0 THEN @ - 1 ELSE 0]
  /\ ret' = "none"
  /\ \E g \in {x \in Garbage : x.next = "null" /\ x.head = "null"
                                /\ x.prev = "null" /\ x.counter = 0} :
       cache' = getCacheData(cache, k[1], k[3], k[2], TRUE, g).cache
  /\ UNCHANGED <<pc, cur, pend>>

ski_unregisterKey(k) ==
  /\ pc = "idle"
  /\ Called([name |-> "unregisterKey", key |-> k])
  /\ regs' = [regs EXCEPT ![k] = IF @ > 0 THEN @ - 1 ELSE 0]
  /\ ret' = "none"
  /\ UNCHANGED <<cache, pc, cur, pend>>

ski_unregisterUpdate(updateID) ==
  /\ pc = "idle"
  /\ Called([name |-> "unregisterUpdate", uid |-> updateID])
  /\ pend' = {p \in pend : p[1] # updateID}
  /\ ret' = "none"
  /\ UNCHANGED <<cache, pc, cur, regs>>

\* ski_clean with the tree emptied one upper node per call
ski_clean_mut ==
  /\ pc = "idle"
  /\ Called([name |-> "clean", again |-> (op.name = "clean")])
  /\ ret' = "none"
  /\ cache' = [cache EXCEPT !.cacheNode.elems =
                                IF @ = <<>> THEN @ ELSE Tail(@)]
  /\ UNCHANGED <<pc, cur, regs, pend>>

\* again: the call before this one was ski_clean as well (history)
ski_clean ==
  /\ pc = "idle"
  /\ Called([name |-> "clean", again |-> (op.name = "clean")])
  /\ ret' = "none"
  /\ UNCHANGED <<cache, pc, cur, regs, pend>>

\* ski_releaseCache: free(_cache) gives back the _SKI_CACHE block and nothing
\* else; after it cache.cacheNode is what is still allocated below the block.
\* The handle is dead afterwards, no further call is made on it
ski_releaseCache ==
  /\ pc = "idle"
  /\ Called([name |-> "releaseCache"])
  /\ pc' = "released"
  /\ ret' = "none"
  /\ UNCHANGED <<cache, cur, regs, pend>>

Next ==
  \/ \E u \in UpdateIDs, a \in AttrNames : ski_registerUpdate(u, a)
  \/ ski_registerUpdate_block
  \/ ski_registerUpdate_segment
  \/ \E k \in Keys : ski_registerKey(k)
  \/ \E k \in Keys : ski_unregisterKey(k)
  \/ \E u \in UpdateIDs : ski_unregisterUpdate(u)
  \/ ski_clean
  \/ ski_releaseCache

Spec == Init /\ [][Next]_vars

(***************************************************************************)
(* The tree driven through _getCacheData, the one entry of the file into   *)
(* the tree, called as ski_registerUpdate calls it and as a lookup.        *)
(***************************************************************************)
\* two more triples: an SKI below that of KeyA under the same algorithm id,
\* and an ASN with another upper half
KeyC == <<65534, 1, SkiB>>
KeyD == <<65536, 1, SkiA>>
TreeKeys == Keys \cup {KeyC, KeyD}

\* what a lookup can read of the memory never assigned: the head pointer of
\* an as2 slot (nothing is created, so nothing else is read)
LookupGarbage ==
  {g \in Garbage : g.next = "null" /\ g.prev = "null" /\ g.counter = 0}

\* the places <<node, slot, algorithm id, data>> of the tree that hold a
\* cache data element
DataPlaces(c) ==
  IF c.null THEN {} ELSE
  UNION {UNION {UNION {{<<n, sl, a, d>> :
                          d \in DOMAIN c.cacheNode.elems[n].as2[sl].elems[a]
                                         .cacheData.elems}
                         : a \in DOMAIN c.cacheNode.elems[n].as2[sl].elems}
                  : sl \in DOMAIN c.cacheNode.elems[n].as2}
           : n \in DOMAIN c.cacheNode.elems}

\* the places of the elements stored for the key triple k
PlacesOf(c, k) ==
  {p \in DataPlaces(c) :
     LET d == DataAt(c, p) IN <<d.asn, d.algoID, d.ski>> = k}

\* one call _getCacheData(cache, asn, ski, algoID, create) for the triple k;
\* ret is "ok" when a cache data element is returned and "null" for NULL;
\* had: the tree held an element for k before the call (history)
getCacheData_call(k, create) ==
  /\ pc = "idle"
  /\ ~cache.null
  /\ UNCHANGED <<cur, regs, pend>>
  /\ \E g \in IF create THEN Garbage ELSE LookupGarbage :
     \E r \in {getCacheData(cache, k[1], k[3], k[2], create, g)} :
       /\ Called([name |-> "getCacheData", key |-> k, create |-> create,
                  at |-> r.at, had |-> (PlacesOf(cache, k) # {})])
       /\ cache' = r.cache
       /\ pc' = IF r.st = "fault" THEN "fault" ELSE "idle"
       /\ ret' = IF r.st = "fault" THEN "none" ELSE r.st

TreeNext ==
  \/ \E k \in TreeKeys, create \in BOOLEAN : getCacheData_call(k, create)
  \/ \E k \in Keys : ski_unregisterKey(k)
  \/ \E u \in UpdateIDs : ski_unregisterUpdate(u)
  \/ ski_clean
  \/ ski_releaseCache

TreeSpec == Init /\ [][TreeNext]_vars

(***************************************************************************)
(* ski_clean called by a second thread while a ski_registerUpdate call is  *)
(* in its loop.  The file holds no lock, so the statements of the two      *)
(* calls interleave freely; the pass of the for loop is split where the    *)
(* other thread matters, between the lookup of cData and its use.          *)
(***************************************************************************)
\* line 921: cData = _getCacheData(cache, asn_list[idx], ski, algoID, true)
ski_registerUpdate_lookup ==
  /\ pc = "for"
  /\ cur.idx < cur.numSegments
  /\ UNCHANGED <<op, ret, notified, regs, pend, hostLE, build, callback>>
  /\ \E g \in Garbage, oobFault \in BOOLEAN :
     \E ski \in {SkiAt(Attrs[cur.attr].buf, cur.stream, cur.pad)} :
     \E r \in {getCacheData(cache, cur.asn_list[cur.idx + 1], ski,
                            cur.algoID, TRUE, g)} :
       IF cur.stream + OffSigSegSiglen + 2 > Len(Attrs[cur.attr].buf) /\ oobFault
       THEN /\ pc' = "fault"
            /\ UNCHANGED <<cache, cur>>
       ELSE IF r.st # "ok"
       THEN /\ pc' = "fault"
            /\ cache' = r.cache
            /\ UNCHANGED cur
       ELSE /\ pc' = "attach"
            /\ cache' = r.cache
            /\ cur' = [cur EXCEPT !.at = r.at, !.cleaned = FALSE]

\* lines 922-935: the counter of cData is read, the update id is attached
\* to it and the stream moves on; a cData that is no longer in the tree is
\* freed memory
ski_registerUpdate_attach ==
  /\ pc = "attach"
  /\ UNCHANGED <<op, ret, notified, regs, pend, hostLE, build, callback>>
  /\ IF cur.at \notin DataPlaces(cache)
     THEN /\ pc' = "fault"
          /\ UNCHANGED <<cache, cur>>
     ELSE
     LET buf == Attrs[cur.attr].buf
         ski == SkiAt(buf, cur.stream, cur.pad)
         siglen == Raw16(buf, cur.stream + OffSigSegSiglen, cur.pad, hostLE)
         d == DataAt(cache, cur.at)
         u == ski_addUpdateCacheUID(d.cacheUID, cur.uid, build)
     IN  IF u.st # "ok"
         THEN /\ pc' = "fault"
              /\ cur' = [cur EXCEPT
                           !.keyCount = IF d.counter > 0 THEN @ + 1 ELSE @]
              /\ UNCHANGED cache
         ELSE /\ cache' = [cache EXCEPT
                  !.cacheNode.elems[cur.at[1]].as2[cur.at[2]].elems[cur.at[3]]
                    .cacheData.elems[cur.at[4]].cacheUID = u.list]
              /\ cur' = [cur EXCEPT
                           !.keyCount = IF d.counter > 0 THEN @ + 1 ELSE @,
                           !.stream = @ + siglen,
                           !.idx = @ + 1,
                           !.skis = Append(@, ski),
                           !.examined = (cur.idx + 1 = cur.numSegments)]
              /\ pc' = IF cur.idx + 1 < cur.numSegments
                       THEN "for" ELSE "while"

\* ski_clean_during with the tree emptied one upper node per call
ski_clean_during_mut ==
  /\ pc \in {"while", "for", "attach"}
  /\ cur' = [cur EXCEPT !.cleaned = TRUE]
  /\ cache' = [cache EXCEPT !.cacheNode.elems =
                                IF @ = <<>> THEN @ ELSE Tail(@)]
  /\ UNCHANGED <<pc, op, ret, notified, regs, pend, hostLE, build, callback>>

\* ski_clean in the other thread: its empty body runs at any point of the
\* loop
ski_clean_during ==
  /\ pc \in {"while", "for", "attach"}
  /\ cur' = [cur EXCEPT !.cleaned = TRUE]
  /\ UNCHANGED <<cache, pc, op, ret, notified, regs, pend, hostLE, build,
                 callback>>

ConcNext ==
  \/ \E u \in UpdateIDs, a \in AttrNames : ski_registerUpdate(u, a)
  \/ ski_registerUpdate_block
  \/ ski_registerUpdate_lookup
  \/ ski_registerUpdate_attach
  \/ ski_clean_during

ConcSpec == Init /\ [][ConcNext]_vars

\* the loop of ski_registerUpdate is run by the calling thread, which is
\* always scheduled again: a pass that can be taken is taken
FairSpec ==
  Spec /\ WF_vars(ski_registerUpdate_block) /\ WF_vars(ski_registerUpdate_segment)

(***************************************************************************)
(* What the cache holds.                                                   *)
(***************************************************************************)
Range(f) == {f[i] : i \in DOMAIN f}

\* every _SKI_CACHE_DATA element linked below the cache
DataElems(c) ==
  IF c.null THEN {} ELSE
  UNION {UNION {UNION {Range(a.cacheData.elems) : a \in Range(n.as2[s].elems)}
                  : s \in DOMAIN n.as2}
           : n \in Range(c.cacheNode.elems)}

\* the key triple <<asn, algoID, ski>> of a cache data element
TripleOf(d) == <<d.asn, d.algoID, d.ski>>

\* the update ids of pend that wait for the key triple k
Waiting(k) == {u \in UpdateIDs : <<u, k>> \in pend}

\* the triples of a block are all registered / the block misses a key
BlockAvailable(blk) == \A i \in DOMAIN blk : regs[blk[i]] > 0
SomeBlockAvailable(a) == \E b \in DOMAIN a.blocks : BlockAvailable(a.blocks[b])

\* the last call was ski_registerUpdate with a non-NULL update id and it
\* has returned
Returned == pc = "idle" /\ op.name = "registerUpdate" /\ op.uid # 0

(***************************************************************************)
(* The verdict of ski_registerUpdate.                                      *)
(***************************************************************************)
\* C1: a registerUpdate call that has returned, on an attribute that parses
\* and has a signature block whose key triples are all registered, has
\* returned REGVAL_UNKNOWN
C1_UnknownWhenBlockAvailable ==
  (Returned /\ Attrs[op.attr].wf /\ SomeBlockAvailable(Attrs[op.attr]))
    => ret = REGVAL_UNKNOWN

\* C2: a registerUpdate call that has returned, on an attribute that parses
\* and whose signature blocks (at least one) each miss a registered key, has
\* returned REGVAL_INVALID
C2_InvalidWhenEveryBlockMissesKey ==
  (Returned /\ Attrs[op.attr].wf /\ Attrs[op.attr].blocks # <<>>
     /\ ~SomeBlockAvailable(Attrs[op.attr]))
    => ret = REGVAL_INVALID

\* C3: for the attribute with one segment and one signature block whose key
\* triple is KeyA, registerUpdate returns REGVAL_UNKNOWN while KeyA is
\* registered and REGVAL_INVALID once KeyA has been unregistered
C3_OneSegmentScenario ==
  (Returned /\ op.attr = "one")
    => /\ regs[KeyA] > 0 => ret = REGVAL_UNKNOWN
       /\ regs[KeyA] = 0 => ret = REGVAL_INVALID

\* C4: every call of registerUpdate that has entered the registration loop
\* comes to an end after finitely many steps: it returns a verdict, unless
\* the process has faulted before
C4_RegisterUpdateReturns ==
  (pc \in {"while", "for"}) ~> (pc \in {"idle", "fault"})

(***************************************************************************)
(* The counters and the callback.                                          *)
(***************************************************************************)
\* C5: between calls, every registered key triple has a record whose
\* counter is the number of registerKey calls not yet unregistered, and no
\* record has another counter than that number
C5_CounterIsOutstandingRegisters ==
  pc = "idle" =>
    \A k \in Keys :
      /\ regs[k] > 0 =>
           \E d \in DataElems(cache) : TripleOf(d) = k /\ d.counter = regs[k]
      /\ \A d \in DataElems(cache) : TripleOf(d) = k => d.counter = regs[k]

\* the callback invocations a call on key triple k owes: one per waiting
\* update id, each for k and with the given status
Notifies(k, status) ==
  /\ Len(notified') = Cardinality(Waiting(k))
  /\ \A u \in Waiting(k) : \E i \in DOMAIN notified' : notified'[i].uid = u
  /\ \A i \in DOMAIN notified' :
       /\ notified'[i].uid \in Waiting(k)
       /\ notified'[i].key = k
       /\ notified'[i].status = status

\* C6: a registerKey call invokes the callback once per update id attached
\* to the key, with SKI_NEW when the counter goes from 0 to 1 and SKI_ADD
\* when it rises above 1, and not at all without an attached update id
C6_RegisterKeyNotifies ==
  [][\A k \in Keys :
       (pc = "idle" /\ regs'[k] = regs[k] + 1)
         => Notifies(k, IF regs[k] = 0 THEN SKI_NEW ELSE SKI_ADD)]_vars

\* C7: an unregisterKey call on a registered key leaves the record's counter
\* one lower and invokes the callback once per attached update id, with
\* SKI_REMOVED when the counter reaches 0 and SKI_DEL when it stays above 0
C7_UnregisterKeyNotifies ==
  [][\A k \in Keys :
       (pc = "idle" /\ regs[k] > 0 /\ regs'[k] = regs[k] - 1)
         => /\ \A d \in DataElems(cache') :
                 TripleOf(d) = k => d.counter = regs'[k]
            /\ Notifies(k, IF regs'[k] = 0 THEN SKI_REMOVED ELSE SKI_DEL)]_vars

(***************************************************************************)
(* The registration of the update id.                                      *)
(***************************************************************************)
\* C8: once registerUpdate has passed over every segment of a signature
\* block, each triple (asn_list[i], algorithm id of the block, SKI of
\* segment i) has a record and the update id is in its update id list
C8_UpdateIDAttached ==
  (pc = "while" /\ cur.examined /\ cur.uid # 0)
    => \A i \in 1..cur.numSegments :
         \E d \in DataElems(cache) :
           /\ TripleOf(d) = <<cur.asn_list[i], cur.algoID, cur.skis[i]>>
           /\ \E j \in DOMAIN d.cacheUID.elems : d.cacheUID.elems[j] = cur.uid

\* C9: a registerUpdate call on a truncated attribute does not enter the
\* registration loop, leaves the records of the cache as they are and, when
\* it returns, returns REGVAL_ERROR
C9_TruncatedIsError ==
  [][(pc = "idle" /\ op'.name = "registerUpdate" /\ Attrs[op'.attr].trunc)
       => /\ pc' \notin {"while", "for"}
          /\ DataElems(cache') = DataElems(cache)
          /\ pc' = "idle" => ret' = REGVAL_ERROR]_vars

\* C10: a registerUpdate call with a null attribute returns REGVAL_ERROR,
\* leaves the cache unchanged and invokes no callback
C10_NullAttributeIsError ==
  [][(pc = "idle" /\ op'.name = "registerUpdate" /\ Attrs[op'.attr].null)
       => /\ pc' = "idle"
          /\ ret' = REGVAL_ERROR
          /\ cache' = cache
          /\ notified' = <<>>]_vars

\* a registerUpdate call with a null attribute and a non-NULL update id has
\* returned REGVAL_ERROR
C10_Witness ==
  /\ pc = "idle"
  /\ op.name = "registerUpdate"
  /\ Attrs[op.attr].null
  /\ op.uid # 0
  /\ ret = REGVAL_ERROR

(***************************************************************************)
(* Unregistering and cleaning.                                             *)
(***************************************************************************)
\* a record nobody uses: registration counter 0 and no update id attached
Unused(d) == d.counter = 0 /\ d.cacheUID.elems = <<>> /\ d.cacheUID.end = "null"

Live(d) == d.counter > 0 \/ d.cacheUID.elems # <<>>

\* C13: a ski_clean step leaves every record with counter > 0 or with an
\* attached update id at its place in the tree, with the same contents
C13_CleanKeepsLiveRecords ==
  [][(pc = "idle" /\ op'.name = "clean")
       => \A p \in DataPlaces(cache) :
            Live(DataAt(cache, p))
              => p \in DataPlaces(cache') /\ DataAt(cache', p) = DataAt(cache, p)]_vars

\* ski_clean has run on a tree that holds a record in use
C13_Witness ==
  /\ op.name = "clean"
  /\ \E p \in DataPlaces(cache) : Live(DataAt(cache, p))

\* C14: a ski_clean call that follows a ski_clean call changes nothing: the
\* tree stays as the first call left it, nothing is notified, nothing fails
C14_CleanTwiceIsCleanOnce ==
  [][(pc = "idle" /\ op.name = "clean" /\ op'.name = "clean")
       => /\ cache' = cache
          /\ notified' = <<>>
          /\ pc' = "idle"
          /\ ret' = "none"]_vars

\* ski_clean has run twice in a row on a tree that holds records
C14_Witness ==
  /\ op.name = "clean"
  /\ op.again
  /\ DataPlaces(cache) # {}

(***************************************************************************)
(* The shape of the tree.                                                  *)
(***************************************************************************)
\* the three list levels as a traversal meets them: the uppers of the node
\* list, the algorithm ids of one as2 slot, the SKIs of one algorithm id
UppersOf(c) == [n \in DOMAIN c.cacheNode.elems |-> c.cacheNode.elems[n].upper]
AlgoIDsOf(l) == [a \in DOMAIN l.elems |-> l.elems[a].algoID]
SkisOf(l) == [d \in DOMAIN l.elems |-> l.elems[d].ski]

\* C15: in every state the node list is strictly ascending by upper, the
\* list of every as2 slot is ascending by algorithm id, and the list of
\* every algorithm id is ascending by SKI in byte order
C15_ListsAscending ==
  ~cache.null =>
    /\ \A i, j \in DOMAIN UppersOf(cache) :
         i < j => UppersOf(cache)[i] < UppersOf(cache)[j]
    /\ \A n \in Range(cache.cacheNode.elems) : \A sl \in DOMAIN n.as2 :
         /\ \A i, j \in DOMAIN n.as2[sl].elems :
              i < j => AlgoIDsOf(n.as2[sl])[i] < AlgoIDsOf(n.as2[sl])[j]
         /\ \A a \in Range(n.as2[sl].elems) :
              \A i, j \in DOMAIN a.cacheData.elems :
                i < j => SkiLess(SkisOf(a.cacheData)[i], SkisOf(a.cacheData)[j])

\* a tree with two upper nodes and with two SKIs under one algorithm id,
\* each pair created greater key first
C15_Witness ==
  /\ ~cache.null
  /\ pc = "idle"
  /\ Len(cache.cacheNode.elems) = 2
  /\ \E p \in DataPlaces(cache) : p[4] = 2

\* C16: in every state the tree holds at most one cache data element for a
\* key triple <<asn, algoID, ski>>
C16_OneRecordPerTriple ==
  \A p, q \in DataPlaces(cache) :
    TripleOf(DataAt(cache, p)) = TripleOf(DataAt(cache, q)) => p = q

\* _getCacheData was called with create for a triple the tree already
\* held, and returned an element
C16_Witness ==
  /\ op.name = "getCacheData"
  /\ op.create
  /\ op.had
  /\ ret = "ok"
  /\ Cardinality(PlacesOf(cache, op.key)) = 1

\* C17: ski_unregisterKey for a triple the tree holds no record of, and
\* ski_unregisterUpdate for an update id no record has attached, leave the
\* cache as it was, notify nothing and fail with nothing
C17_UnregisterUnknownIsNoOp ==
  [][(/\ pc = "idle"
      /\ \/ op'.name = "unregisterKey" /\ PlacesOf(cache, op'.key) = {}
         \/ /\ op'.name = "unregisterUpdate"
            /\ \A d \in DataElems(cache) : op'.uid \notin Range(d.cacheUID.elems))
       => /\ cache' = cache
          /\ notified' = <<>>
          /\ pc' = "idle"
          /\ ret' = "none"]_vars

\* ski_unregisterKey has run for a triple without a record, on a tree that
\* holds records of other triples
C17_Witness ==
  /\ op.name = "unregisterKey"
  /\ PlacesOf(cache, op.key) = {}
  /\ DataPlaces(cache) # {}

\* C18: a step of any operation other than ski_clean leaves every record of
\* the tree in the tree: the triples held before the step are held after it
C18_OnlyCleanRemoves ==
  [][op'.name # "clean"
       => \A k \in TreeKeys :
            PlacesOf(cache, k) # {} /\ pc' # "fault" => PlacesOf(cache', k) # {}]_vars

(***************************************************************************)
(* Creating the cache.                                                     *)
(***************************************************************************)
\* C19: ski_createCache returns NULL exactly when it was given no callback
C19_CacheIffCallback == cache.null <=> callback = "null"

\* ski_createCache was called without a callback and returned NULL
C19_Witness == op.name = "createCache" /\ callback = "null" /\ cache.null

\* C20: the callback a cache holds is the one ski_createCache was given
C20_CallbackKept == ~cache.null => cache.keyChange = callback

(***************************************************************************)
(* Releasing the cache.                                                    *)
(***************************************************************************)
\* C21: after ski_releaseCache nothing the cache owned is still allocated:
\* no upper node, and with it no algorithm id, cache data element or update
\* id entry
C21_ReleaseFreesTree ==
  pc = "released" => cache.cacheNode.elems = <<>> /\ DataPlaces(cache) = {}

(***************************************************************************)
(* ski_clean next to a running ski_registerUpdate.                         *)
(***************************************************************************)
\* C23: between the lookup of a record by ski_registerUpdate and the use of
\* that record, whatever ski_clean does in another thread, the record stays
\* at its place in the tree and is the record of the triple looked up
C23_CleanSparesRecordInUse ==
  pc = "attach" =>
    /\ cur.at \in DataPlaces(cache)
    /\ TripleOf(DataAt(cache, cur.at))
         = <<cur.asn_list[cur.idx + 1], cur.algoID,
             SkiAt(Attrs[cur.attr].buf, cur.stream, cur.pad)>>

\* ski_clean has run between the lookup of a record and its use
C23_Witness ==
  /\ pc = "attach"
  /\ cur.cleaned
  /\ cur.at \in DataPlaces(cache)

(***************************************************************************)
(* Find-or-create in the three lists.                                      *)
(***************************************************************************)
\* C24: a call of _getCacheData with create set that comes back returns an
\* element, and the tree then holds an element for the triple asked for
C24_CreateAlwaysReturnsRecord ==
  (pc = "idle" /\ op.name = "getCacheData" /\ op.create)
    => ret = "ok" /\ PlacesOf(cache, op.key) # {}

\* the reference find-or-insert on a strictly ascending sequence of keys:
\* the sequence with k in it, at its sorted place
RefInsert(keys, k) ==
  IF \E i \in DOMAIN keys : keys[i] = k THEN keys
  ELSE LET below == {i \in DOMAIN keys : keys[i] < k}
           n == Cardinality(below)
       IN  SubSeq(keys, 1, n) \o <<k>> \o SubSeq(keys, n + 1, Len(keys))

\* the same for SKIs, ordered as memcmp orders them
RefInsertSki(keys, k) ==
  IF \E i \in DOMAIN keys : keys[i] = k THEN keys
  ELSE LET below == {i \in DOMAIN keys : SkiLess(keys[i], k)}
           n == Cardinality(below)
       IN  SubSeq(keys, 1, n) \o <<k>> \o SubSeq(keys, n + 1, Len(keys))

\* the algorithm ids listed in the as2 slot of asn, and the SKIs listed
\* under algoID in that slot; <<>> where the tree has no such list
AlgoIDsAt(c, asn) ==
  LET ns == {n \in Range(c.cacheNode.elems) : n.upper = asn \div U16Mod}
  IN  IF ns = {} THEN <<>>
      ELSE LET node == CHOOSE n \in ns : TRUE
           IN  IF asn % U16Mod \in DOMAIN node.as2
               THEN AlgoIDsOf(node.as2[asn % U16Mod]) ELSE <<>>
SkisAt(c, asn, algoID) ==
  LET ns == {n \in Range(c.cacheNode.elems) : n.upper = asn \div U16Mod}
  IN  IF ns = {} THEN <<>>
      ELSE LET node == CHOOSE n \in ns : TRUE
               as == IF asn % U16Mod \in DOMAIN node.as2
                     THEN {a \in Range(node.as2[asn % U16Mod].elems) :
                             a.algoID = algoID}
                     ELSE {}
           IN  IF as = {} THEN <<>>
               ELSE SkisOf((CHOOSE a \in as : TRUE).cacheData)

\* C25: a call of _getCacheData with create set that comes back leaves each
\* of the three lists on the way of its triple as the reference
\* find-or-insert on a sorted set leaves it
C25_ListsRefineSortedSet ==
  [][(pc = "idle" /\ op'.name = "getCacheData" /\ op'.create /\ pc' = "idle")
       => /\ UppersOf(cache')
               = RefInsert(UppersOf(cache), op'.key[1] \div U16Mod)
          /\ AlgoIDsAt(cache', op'.key[1])
               = RefInsert(AlgoIDsAt(cache, op'.key[1]), op'.key[2])
          /\ SkisAt(cache', op'.key[1], op'.key[2])
               = RefInsertSki(SkisAt(cache, op'.key[1], op'.key[2]),
                              op'.key[3])]_vars

\* C26: a call of _getCacheData that comes back leaves every upper node,
\* every algorithm id element and every cache data element of the tree in
\* the tree: the uppers, the algorithm ids of every slot and the triples
\* held before the call are held after it
C26_LookupUnlinksNothing ==
  [][(pc = "idle" /\ op'.name = "getCacheData" /\ pc' = "idle")
       => /\ Range(UppersOf(cache)) \subseteq Range(UppersOf(cache'))
          /\ \A k \in TreeKeys :
               /\ Range(AlgoIDsAt(cache, k[1]))
                    \subseteq Range(AlgoIDsAt(cache', k[1]))
               /\ PlacesOf(cache, k) # {} => PlacesOf(cache', k) # {}]_vars

(***************************************************************************)
(* The walk of ski_registerUpdate over the attribute.                      *)
(***************************************************************************)
\* the remainder of the walk as lines 827-856 compute it, but in exact
\* integers, for a buffer that holds the length field and the length of the
\* Secure_Path: after the length field, after the length of the Secure_Path,
\* after the path segments
ExactBudget(buf) ==
  LET ext == (buf[1] \div BGP_UPD_A_FLAGS_EXT_LENGTH) % 2 = 1
      s1 == SizeofPathAttribute + (IF ext THEN 2 ELSE 1)
      declared == IF ext THEN Ntohs(buf, SizeofPathAttribute, 0)
                         ELSE ByteAt(buf, SizeofPathAttribute, 0)
      r0 == declared - (IF ext THEN 2 ELSE 1)
      numSegments == CDiv(Ntohs(buf, s1, 0) - 2, SizeofPathSegment)
  IN  <<r0, r0 - 2, r0 - 2 - numSegments * SizeofPathSegment>>

\* some subtraction of the walk takes the budget below zero
WentNegative(buf) == \E i \in 1..3 : ExactBudget(buf)[i] < 0

\* C27: a registerUpdate call on an attribute whose budget goes below zero
\* at some step of the walk does not go on into the registration loop, and
\* when it returns it returns REGVAL_ERROR
C27_NegativeBudgetIsError ==
  (/\ op.name = "registerUpdate"
   /\ ~Attrs[op.attr].null
   /\ WentNegative(Attrs[op.attr].buf))
    => /\ pc \notin {"while", "for"}
       /\ pc = "idle" => ret = REGVAL_ERROR

\* C28: a registerUpdate call that returns on a well-formed attribute, with
\* no, one or two signature blocks, does not return REGVAL_ERROR
C28_WellFormedShapesAccepted ==
  (pc = "idle" /\ op.name = "registerUpdate" /\ Attrs[op.attr].wf)
    => ret # REGVAL_ERROR

\* an attribute that declares more bytes than its Secure_Path and signature
\* blocks take up
Leftover(a) == ~a.null /\ ~a.wf /\ ~a.trunc

\* C29: a registerUpdate call on an attribute with bytes left over behind
\* its Secure_Path and signature blocks does not go on into the registration
\* loop, and when it returns it returns REGVAL_ERROR
C29_LeftoverIsError ==
  (op.name = "registerUpdate" /\ Leftover(Attrs[op.attr]))
    => /\ pc \notin {"while", "for"}
       /\ pc = "idle" => ret = REGVAL_ERROR

\* the attribute length as the header declares it: 1 byte, or 2 bytes
\* big-endian with the extended-length flag
DeclaredLength(buf) ==
  IF (buf[1] \div BGP_UPD_A_FLAGS_EXT_LENGTH) % 2 = 1
  THEN Ntohs(buf, SizeofPathAttribute, 0)
  ELSE ByteAt(buf, SizeofPathAttribute, 0)

\* C30: the remainder with which the walk of a registerUpdate call starts
\* into the Secure_Path is the declared length of the attribute
C30_BudgetIsDeclaredLength ==
  (op.name = "registerUpdate" /\ ~Attrs[op.attr].null)
    => \A pad \in UninitByte :
         Walks[op.attr][hostLE][pad].budget = DeclaredLength(Attrs[op.attr].buf)

(***************************************************************************)
(* The registration loop over the segments.                                *)
(***************************************************************************)
\* C31: the SKI the registration loop has used for segment index i of the
\* first signature block is the SKI of the i-th signature segment of that
\* block
C31_SkiOfSegment ==
  (pc \in {"while", "for"} /\ Attrs[cur.attr].blocks # <<>>)
    => \A i \in DOMAIN cur.skis :
         i \in DOMAIN Attrs[cur.attr].blocks[1]
           => cur.skis[i] = Attrs[cur.attr].blocks[1][i][3]

\* the ASN fields of the path segments of an attribute, as bytes: six bytes
\* a segment behind the length of the Secure_Path, the ASN in the last four
PathAsns(buf) ==
  LET ext == (buf[1] \div BGP_UPD_A_FLAGS_EXT_LENGTH) % 2 = 1
      s1 == SizeofPathAttribute + (IF ext THEN 2 ELSE 1)
      n == ((buf[s1 + 1] * 256 + buf[s1 + 2]) - 2) \div SizeofPathSegment
  IN  [i \in 1..n |->
         SubSeq(buf, s1 + 2 + SizeofPathSegment * (i - 1) + OffSegmentAsn + 1,
                     s1 + 2 + SizeofPathSegment * (i - 1) + OffSegmentAsn + 4)]

\* C32: a registerUpdate call that has passed the walk has numSegments =
\* (Secure_Path length - 2) / 6 and holds in asn_list the ASNs of the path
\* segments in path order
C32_AsnListIsPath ==
  pc \in {"while", "for"}
    => /\ cur.numSegments = Len(PathAsns(Attrs[cur.attr].buf))
       /\ Len(cur.asn_list) = cur.numSegments
       /\ \A i \in DOMAIN cur.asn_list :
            Be32(cur.asn_list[i]) = PathAsns(Attrs[cur.attr].buf)[i]

\* the walk has collected the ASNs of a path of two segments
C32_Witness ==
  /\ pc \in {"while", "for"}
  /\ cur.numSegments = 2
  /\ cur.asn_list = <<65536, 65534>>

(***************************************************************************)
(* The update id list of a record.                                         *)
(***************************************************************************)
\* the update ids listed at the record of the triple k, <<>> without one
UpdateIDsAt(c, k) ==
  IF PlacesOf(c, k) = {} THEN <<>>
  ELSE DataAt(c, CHOOSE p \in PlacesOf(c, k) : TRUE).cacheUID.elems

\* C33: a pass of the registration loop that attaches a non-NULL update id
\* to the record of its triple leaves the update id list of that record as
\* the ordered insert-if-absent of the id leaves it
C33_AttachIsOrderedInsert ==
  [][(pc = "for" /\ cur.uid # 0 /\ cur'.idx = cur.idx + 1)
       => LET k == <<cur.asn_list[cur.idx + 1], cur.algoID,
                     SkiAt(Attrs[cur.attr].buf, cur.stream, cur.pad)>>
          IN  UpdateIDsAt(cache', k) = RefInsert(UpdateIDsAt(cache, k), cur.uid)]_vars

\* C34: the attaching of a non-NULL update id to a record with an empty
\* update id list comes to its end without a fault, and the record then
\* lists the id
C34_AttachUsesNoNullEntry ==
  [][(/\ pc = "attach"
      /\ pc' # "attach"
      /\ cur.uid # 0
      /\ DataAt(cache, cur.at).cacheUID = List(<<>>, "null"))
       => /\ pc' # "fault"
          /\ cur.uid \in Range(DataAt(cache', cur.at).cacheUID.elems)]_vars

\* C35: every object starts empty when it is created: the cache that
\* ski_createCache returns has no upper node, and a cache data element
\* that _getCacheData has just created has counter 0 and an empty list of
\* update ids
C35_NewObjectsStartEmpty ==
  /\ (op.name = "createCache" /\ ~cache.null)
       => cache.cacheNode = List(<<>>, "null")
  /\ (op.name = "getCacheData" /\ pc = "idle" /\ ret = "ok" /\ ~op.had)
       => Unused(DataAt(cache, op.at))

\* C36: every cache data element sits where its fields say: an element
\* reached through the node of upper u, the as2 slot l and the algorithm id
\* element a has asn = u * 65536 + l and algoID = a
C36_RecordSitsWhereFieldsSay ==
  \A p \in DataPlaces(cache) :
    LET node == cache.cacheNode.elems[p[1]]
        algo == node.as2[p[2]].elems[p[3]]
        d == DataAt(cache, p)
    IN  /\ d.asn = node.upper * 65536 + p[2]
        /\ d.algoID = algo.algoID

C36_Witness ==
  /\ pc = "idle"
  /\ PlacesOf(cache, KeyA) # {}
  /\ PlacesOf(cache, KeyD) # {}

\* the declared length of the attribute is the length of its Secure_Path:
\* the path segments take the whole remainder and no signature block follows
PathExhausts(buf) ==
  DeclaredLength(buf) = 2 + Len(PathAsns(buf)) * SizeofPathSegment

\* C37: a call of ski_registerUpdate for an attribute whose remainder is
\* exactly exhausted by the path segments returns REGVAL_INVALID and leaves
\* no cache data element in the tree
C37_PathOnlyIsInvalid ==
  (/\ pc = "idle"
   /\ op.name = "registerUpdate"
   /\ ~Attrs[op.attr].null
   /\ PathExhausts(Attrs[op.attr].buf))
    => /\ ret = REGVAL_INVALID
       /\ DataPlaces(cache) = {}

\* C38: _getCacheData is a function of the cache, its arguments and what
\* the allocator hands out: two calls from the same cache state with the
\* same arguments, given the same new memory, return the same result and
\* leave the same cache
C38_Deterministic ==
  (pc = "idle" /\ ~cache.null)
    => \A k \in TreeKeys : \A g \in Garbage :
         LET r1 == getCacheData(cache, k[1], k[3], k[2], TRUE, g)
             r2 == getCacheData(cache, k[1], k[3], k[2], TRUE,
                                [g EXCEPT !.prev = "null"])
         IN  r1.st = r2.st /\ r1.cache = r2.cache

\* C39: the field dataNodes of the cache is the number of cache data
\* elements that the tree holds
C39_DataNodesCountsRecords ==
  ~cache.null => cache.dataNodes = Cardinality(DataPlaces(cache))

=============================================================================
